---- MODULE Spec2Model ----
(***************************************************************************)
(* Model of src/demoActivateFlow.js: the in-memory activation registry     *)
(* `db` and the five HTTP handlers that register, redeem (by token or by   *)
(* code), inspect and re-issue activation records.                         *)
(*                                                                         *)
(* Strings are sequences of one-character strings, so that toLowerCase and *)
(* the two regular expressions are computed, not assumed.  A nullable      *)
(* field is Null (<<>>) or Some(v) (<<v>>).  Every call of now() is a      *)
(* separate clock read: the clock may advance between two reads of one     *)
(* handler.  genToken() is modelled as the next unused token number (256   *)
(* random bits never repeat); genCode() draws from the decimal renderings  *)
(* of a few integers of its range.                                         *)
(*                                                                         *)
(* A handler is a function from the registry, its inputs and the values    *)
(* its now() calls return to the registry it leaves and the response it    *)
(* sends; the actions apply the handlers to the state.  lastToken,         *)
(* staleTokens and activations are history variables: the token last       *)
(* issued for each record, the tokens a resend has replaced, and how many  *)
(* times each token has taken a record from Pending to Active.  inflight   *)
(* holds the POST requests whose body is still being read (collectJson);   *)
(* it stays empty when every request is handled as it arrives.             *)
(***************************************************************************)
EXTENDS Integers, Sequences, FiniteSets, Bags, TLC

VARIABLES db, clock, issued, lastToken, staleTokens, activations, inflight

vars == <<db, clock, issued, lastToken, staleTokens, activations, inflight>>

----------------------------------------------------------------------------
(* Bounds *)

MaxTokens == 3
MaxEpoch == 1
MaxSkew == 2
MaxInflight == 2

----------------------------------------------------------------------------
(* Values *)

Null == <<>>
Some(v) == <<v>>

Truthy(o) == o # Null /\ o[1] # 0

TOKEN_TTL_MS == 15 * 60 * 1000

Times == {k * TOKEN_TTL_MS + j : k \in 0..MaxEpoch, j \in 1..MaxSkew}

Tokens == 1..MaxTokens

EmailInputs ==
  { <<"a", "@", "b", ".", "c">>,
    <<"A", "@", "b", ".", "c">>,
    <<"x", "@", "y", ".", "z">>,
    <<"a", "@", "b">> }

DigitChars == <<"0", "1", "2", "3", "4", "5", "6", "7", "8", "9">>

WhiteSpace == {" ", "\t", "\n"}

----------------------------------------------------------------------------
(* Pure functions.  The string functions are tabulated over the inputs   *)
(* of the model: each table entry is computed by the function itself.     *)

NoBody == <<>>

LowerChar(c) ==
  CASE c = "A" -> "a"
    [] c = "B" -> "b"
    [] c = "C" -> "c"
    [] c = "X" -> "x"
    [] c = "Y" -> "y"
    [] c = "Z" -> "z"
    [] OTHER -> c

LowerCased(s) == [i \in 1..Len(s) |-> LowerChar(s[i])]

LowerTable == [v \in EmailInputs \cup {NoBody} |-> LowerCased(v)]

toLowerCase_asGiven(s) == s

toLowerCase(s) == LowerTable[s]

EmailShape(v) ==
  \E i \in 1..Len(v), j \in 1..Len(v) :
    /\ v[i] = "@"
    /\ v[j] = "."
    /\ 1 < i
    /\ i + 1 < j
    /\ j < Len(v)
    /\ \A n \in 1..Len(v) : n # i => (v[n] \notin WhiteSpace /\ v[n] # "@")

EmailTable == [v \in EmailInputs \cup {NoBody} |-> EmailShape(v)]

isEmail(v) == EmailTable[v]

RECURSIVE ToDecimal(_)
ToDecimal(n) ==
  IF n < 10 THEN <<DigitChars[n + 1]>>
  ELSE Append(ToDecimal(n \div 10), DigitChars[(n % 10) + 1])

CodeShape(s) ==
  /\ Len(s) = 6
  /\ \A i \in 1..Len(s) : \E d \in 1..10 : s[i] = DigitChars[d]

CodeSamples == {100000, 999999}

genCode == {ToDecimal(n) : n \in CodeSamples}

genToken(n) == n + 1

CodeInputs ==
  genCode \cup {<<"0", "1", "2", "3", "4", "5">>, <<"1", "2", "a", "4", "5">>}

CodeTable == [v \in CodeInputs \cup {NoBody} |-> CodeShape(v)]

isCodeFormat(s) == CodeTable[s]

ValidEmails == {v \in EmailInputs : isEmail(v)}

----------------------------------------------------------------------------
(* Registry operations *)

issueRec(email, tok, code, tCreated, tExpiry) ==
  [ email |-> email,
    status |-> "pending",
    token |-> Some(tok),
    code |-> Some(code),
    createdAt |-> tCreated,
    activatedAt |-> Null,
    expiresAt |-> Some(tExpiry + TOKEN_TTL_MS) ]

issue_keepExisting(d, email, tok, code, tCreated, tExpiry) ==
  [k \in DOMAIN d \cup {toLowerCase(email)} |->
     IF k \in DOMAIN d THEN d[k]
     ELSE issueRec(email, tok, code, tCreated, tExpiry)]

issue(d, email, tok, code, tCreated, tExpiry) ==
  [k \in DOMAIN d \cup {toLowerCase(email)} |->
     IF k = toLowerCase(email)
     THEN issueRec(email, tok, code, tCreated, tExpiry)
     ELSE d[k]]

findByToken(d, token) == {k \in DOMAIN d : d[k].token = token}

activateRecord_keepToken(rec, t) ==
  [rec EXCEPT !.status = "active",
              !.activatedAt = Some(t),
              !.code = Null,
              !.expiresAt = Null]

activateRecord_keepCode(rec, t) ==
  [rec EXCEPT !.status = "active",
              !.activatedAt = Some(t),
              !.token = Null,
              !.expiresAt = Null]

activateRecord(rec, t) ==
  [rec EXCEPT !.status = "active",
              !.activatedAt = Some(t),
              !.token = Null,
              !.code = Null,
              !.expiresAt = Null]

purgeable_never(rec, t) == FALSE

purgeable_anyPending(rec, t) == rec.status = "pending"

purgeable_lenient(rec, t) ==
  rec.status = "pending" /\ Truthy(rec.expiresAt) /\ rec.expiresAt[1] + 1 < t

purgeable(rec, t) ==
  rec.status = "pending" /\ Truthy(rec.expiresAt) /\ rec.expiresAt[1] < t

purgeExpired_keep(d, t) == d

purgeExpired(d, t) ==
  [k \in {x \in DOMAIN d : ~purgeable(d[x], t)} |-> d[k]]

tokenActive(rec) == rec.status = "active"

codeActive_never(rec) == FALSE

codeActive(rec) == rec.status = "active"

resendActive_never(rec) == FALSE

resendActive(rec) == rec.status = "active"

tokenExpired_never(rec, t) == FALSE

tokenExpired(rec, t) == Truthy(rec.expiresAt) /\ rec.expiresAt[1] < t

codeExpired_inclusive(rec, t) == Truthy(rec.expiresAt) /\ rec.expiresAt[1] <= t

codeExpired(rec, t) == Truthy(rec.expiresAt) /\ rec.expiresAt[1] < t

codeMismatch_never(rec, code) == FALSE

codeMismatch(rec, code) == rec.code # Some(code)

reissue_keepToken(rec, tok, code, t) ==
  [rec EXCEPT !.code = Some(code),
              !.expiresAt = Some(t + TOKEN_TTL_MS)]

reissue_newCreatedAt(rec, tok, code, t) ==
  [rec EXCEPT !.token = Some(tok),
              !.code = Some(code),
              !.createdAt = t,
              !.expiresAt = Some(t + TOKEN_TTL_MS)]

reissue(rec, tok, code, t) ==
  [rec EXCEPT !.token = Some(tok),
              !.code = Some(code),
              !.expiresAt = Some(t + TOKEN_TTL_MS)]

collectJson(fault) ==
  CASE fault = "too_large" -> [status |-> 413, message |-> "Payload too large"]
    [] fault = "invalid_json" -> [status |-> 400, message |-> "Invalid JSON"]
    [] OTHER -> [status |-> 200, message |-> "ok"]

BodyFaults == {"none", "too_large", "invalid_json"}

----------------------------------------------------------------------------
(* Handlers.  Each returns the registry it leaves (db), the response it   *)
(* sends (http, body), how many times it called now() (nreads) and the    *)
(* number of tokens generated so far (issued).                            *)

Result(d, http, body, nreads, n) ==
  [db |-> d, http |-> http, body |-> body, nreads |-> nreads, issued |-> n]

sendError(d, http, error, nreads, n) ==
  Result(d, http, [ok |-> FALSE, error |-> error], nreads, n)

handleRegister(d, n, fault, email, code, rs) ==
  IF fault # "none"
  THEN sendError(d, collectJson(fault).status, collectJson(fault).message, 0, n)
  ELSE IF ~isEmail(email)
  THEN sendError(d, 400, "Invalid email", 0, n)
  ELSE LET purged == purgeExpired(d, rs[1])
           d2 == issue(purged, email, genToken(n), code, rs[2], rs[3])
           rec == d2[toLowerCase(email)]
       IN Result(d2, 200,
                 [ok |-> TRUE, email |-> rec.email, status |-> rec.status,
                  activationLink |-> rec.token, code |-> rec.code,
                  expiresAt |-> rec.expiresAt],
                 3, genToken(n))

handleActivateByToken(d, n, token, rs) ==
  IF token = Null
  THEN sendError(d, 400, "Missing token", 0, n)
  ELSE LET purged == purgeExpired(d, rs[1])
           found == findByToken(purged, token)
       IN IF found = {}
          THEN sendError(purged, 404, "Invalid or expired token", 1, n)
          ELSE LET k == CHOOSE x \in found : TRUE
                   rec == purged[k]
                   act == activateRecord(rec, rs[3])
               IN IF tokenActive(rec)
                  THEN Result(purged, 200,
                              [ok |-> TRUE, email |-> rec.email,
                               status |-> rec.status], 1, n)
                  ELSE IF tokenExpired(rec, rs[2])
                  THEN sendError(purged, 410, "Token expired", 2, n)
                  ELSE Result([purged EXCEPT ![k] = act], 200,
                              [ok |-> TRUE, email |-> act.email,
                               status |-> act.status,
                               activatedAt |-> act.activatedAt], 3, n)

handleActivateByCode(d, n, fault, email, code, rs) ==
  IF fault # "none"
  THEN sendError(d, collectJson(fault).status, collectJson(fault).message, 0, n)
  ELSE IF ~isEmail(email)
  THEN sendError(d, 400, "Invalid email", 0, n)
  ELSE IF ~isCodeFormat(code)
  THEN sendError(d, 400, "Invalid code format", 0, n)
  ELSE LET purged == purgeExpired(d, rs[1])
           k == toLowerCase(email)
       IN IF k \notin DOMAIN purged
          THEN sendError(purged, 404, "Not found", 1, n)
          ELSE LET rec == purged[k]
                   act == activateRecord(rec, rs[3])
               IN IF codeActive(rec)
                  THEN Result(purged, 200,
                              [ok |-> TRUE, email |-> rec.email,
                               status |-> rec.status], 1, n)
                  ELSE IF codeExpired(rec, rs[2])
                  THEN sendError(purged, 410, "Code expired", 2, n)
                  ELSE IF codeMismatch(rec, code)
                  THEN sendError(purged, 401, "Code mismatch", 2, n)
                  ELSE Result([purged EXCEPT ![k] = act], 200,
                              [ok |-> TRUE, email |-> act.email,
                               status |-> act.status,
                               activatedAt |-> act.activatedAt], 3, n)

handleStatus(d, n, email, rs) ==
  IF ~isEmail(email)
  THEN sendError(d, 400, "Invalid email", 0, n)
  ELSE LET purged == purgeExpired(d, rs[1])
           k == toLowerCase(email)
       IN IF k \notin DOMAIN purged
          THEN Result(purged, 200,
                      [ok |-> TRUE, email |-> email, status |-> "none"], 1, n)
          ELSE Result(purged, 200,
                      [ok |-> TRUE, email |-> purged[k].email,
                       status |-> purged[k].status,
                       createdAt |-> purged[k].createdAt,
                       activatedAt |-> purged[k].activatedAt,
                       expiresAt |-> purged[k].expiresAt], 1, n)

handleResend(d, n, fault, email, code1, code2, rs) ==
  IF fault # "none"
  THEN sendError(d, collectJson(fault).status, collectJson(fault).message, 0, n)
  ELSE IF ~isEmail(email)
  THEN sendError(d, 400, "Invalid email", 0, n)
  ELSE LET purged == purgeExpired(d, rs[1])
           k == toLowerCase(email)
           missing == k \notin DOMAIN purged
           n1 == IF missing THEN genToken(n) ELSE n
           d1 == IF missing THEN issue(purged, email, n1, code1, rs[2], rs[3])
                 ELSE purged
           nr == IF missing THEN 3 ELSE 1
           rec == reissue(d1[k], genToken(n1), code2, rs[nr + 1])
       IN IF resendActive(d1[k])
          THEN Result(d1, 200,
                      [ok |-> TRUE, email |-> d1[k].email,
                       status |-> d1[k].status,
                       message |-> "Already active"], nr, n1)
          ELSE Result([d1 EXCEPT ![k] = rec], 200,
                      [ok |-> TRUE, email |-> rec.email, status |-> rec.status,
                       activationLink |-> rec.token, code |-> rec.code,
                       expiresAt |-> rec.expiresAt],
                      nr + 1, genToken(n1))

----------------------------------------------------------------------------
(* Clock reads.  rs[i] is the value the i-th call of now() returns; the  *)
(* values never decrease, and one handler runs for less than the TTL.     *)
(* The reads a handler does not make repeat the last one it made.         *)

Later(t) == {u \in Times : u >= t}

Soon(t) == {u \in Later(t) : u < t + TOKEN_TTL_MS}

RECURSIVE Chains(_, _)
Chains(t, n) ==
  IF n = 0 THEN {<<>>}
  ELSE UNION {{<<u>> \o r : r \in Chains(u, n - 1)} : u \in Soon(t)}

Reads(n) == Chains(clock, n)

ReadAt(rs, n) == IF n = 0 THEN clock ELSE rs[n]

Canonical(rs, n) == \A i \in 1..Len(rs) : i > n => rs[i] = ReadAt(rs, n)

----------------------------------------------------------------------------
(* Initial state *)

Init ==
  /\ db = [k \in {} |-> Null]
  /\ clock = 1
  /\ issued = 0
  /\ lastToken = [k \in {} |-> 0]
  /\ staleTokens = {}
  /\ activations = EmptyBag
  /\ inflight = EmptyBag

----------------------------------------------------------------------------
(* Actions *)

Replaced(r, email) ==
  LET k == toLowerCase(email)
  IN IF /\ isEmail(email)
        /\ k \in DOMAIN db
        /\ k \in DOMAIN r.db
        /\ db[k].status = "pending"
        /\ r.db[k].status = "pending"
        /\ r.db[k].createdAt = db[k].createdAt
        /\ r.http = 200
     THEN {db[k].token[1]}
     ELSE {}

Redeemed(r) ==
  {db[k].token[1] : k \in {x \in DOMAIN db \cap DOMAIN r.db :
                             db[x].status = "pending" /\ r.db[x].status = "active"}}

Commit(r, rs, stale) ==
  /\ r.issued <= MaxTokens
  /\ Canonical(rs, r.nreads)
  /\ db' = r.db
  /\ clock' = ReadAt(rs, r.nreads)
  /\ issued' = r.issued
  /\ lastToken' = [k \in DOMAIN r.db |->
                     IF r.db[k].token # Null THEN r.db[k].token[1]
                     ELSE lastToken[k]]
  /\ staleTokens' = staleTokens \cup stale
  /\ activations' = activations (+) SetToBag(Redeemed(r))

AdvanceClock(t) ==
  /\ t \in Times
  /\ t > clock
  /\ clock' = t
  /\ UNCHANGED <<db, issued, lastToken, staleTokens, activations, inflight>>

Register(fault, email, code, rs) ==
  /\ Commit(handleRegister(db, issued, fault, email, code, rs), rs, {})
  /\ UNCHANGED inflight

ActivateByToken(token, rs) ==
  /\ Commit(handleActivateByToken(db, issued, token, rs), rs, {})
  /\ UNCHANGED inflight

ActivateByCode(fault, email, code, rs) ==
  /\ Commit(handleActivateByCode(db, issued, fault, email, code, rs), rs, {})
  /\ UNCHANGED inflight

Status(email, rs) ==
  /\ Commit(handleStatus(db, issued, email, rs), rs, {})
  /\ UNCHANGED inflight

Resend(fault, email, code1, code2, rs) ==
  /\ Commit(handleResend(db, issued, fault, email, code1, code2, rs), rs,
            Replaced(handleResend(db, issued, fault, email, code1, code2, rs), email))
  /\ UNCHANGED inflight

----------------------------------------------------------------------------
(* Inputs *)

TokenInputs == {Null} \cup {Some(n) : n \in Tokens}

Next ==
  \/ \E t \in Times : AdvanceClock(t)
  \/ \E email \in EmailInputs, code \in genCode, rs \in Reads(3) :
       Register("none", email, code, rs)
  \/ \E token \in TokenInputs, rs \in Reads(3) : ActivateByToken(token, rs)
  \/ \E email \in EmailInputs, code \in CodeInputs, rs \in Reads(3) :
       ActivateByCode("none", email, code, rs)
  \/ \E email \in EmailInputs, rs \in Reads(1) : Status(email, rs)
  \/ \E email \in EmailInputs, code1, code2 \in genCode, rs \in Reads(4) :
       Resend("none", email, code1, code2, rs)
  \/ \E fault \in BodyFaults \ {"none"}, rs \in Reads(0) :
       \/ Register(fault, NoBody, NoBody, rs)
       \/ ActivateByCode(fault, NoBody, NoBody, rs)
       \/ Resend(fault, NoBody, NoBody, NoBody, rs)

Spec == Init /\ [][Next]_vars

----------------------------------------------------------------------------
(* Overlapping requests.  A POST handler suspends once, in collectJson,   *)
(* before it touches the registry: Receive puts the request in flight,    *)
(* and the callback that collectJson resolves (or rejects) runs later, to *)
(* completion, in any order with the callbacks of the other requests in   *)
(* flight.  The GET handlers never suspend.                               *)

ConcEmails == {<<"a", "@", "b", ".", "c">>, <<"A", "@", "b", ".", "c">>}

Request(op, fault, email, code) ==
  [op |-> op, fault |-> fault, email |-> email, code |-> code]

PostRequests ==
  {Request(op, "none", e, NoBody) : op \in {"register", "resend"}, e \in ConcEmails}
    \cup {Request("activate", "none", e, c) : e \in ConcEmails, c \in genCode}
    \cup {Request(op, "invalid_json", NoBody, NoBody) :
            op \in {"register", "activate", "resend"}}

Receive(req) ==
  /\ BagCardinality(inflight) < MaxInflight
  /\ inflight' = inflight (+) SetToBag({req})
  /\ UNCHANGED <<db, clock, issued, lastToken, staleTokens, activations>>

Resolved(req, op) ==
  /\ BagIn(req, inflight)
  /\ req.op = op
  /\ inflight' = inflight (-) SetToBag({req})

RunRegister(req, code, rs) ==
  /\ Resolved(req, "register")
  /\ Commit(handleRegister(db, issued, req.fault, req.email, code, rs), rs, {})

RunActivateByCode(req, rs) ==
  /\ Resolved(req, "activate")
  /\ Commit(handleActivateByCode(db, issued, req.fault, req.email, req.code, rs),
            rs, {})

RunResend(req, code1, code2, rs) ==
  /\ Resolved(req, "resend")
  /\ Commit(handleResend(db, issued, req.fault, req.email, code1, code2, rs), rs,
            Replaced(handleResend(db, issued, req.fault, req.email, code1, code2, rs),
                     req.email))

NextConc ==
  \/ \E t \in Times : AdvanceClock(t)
  \/ \E req \in PostRequests : Receive(req)
  \/ \E req \in PostRequests, code \in genCode, rs \in Reads(3) :
       RunRegister(req, code, rs)
  \/ \E req \in PostRequests, rs \in Reads(3) : RunActivateByCode(req, rs)
  \/ \E req \in PostRequests, code1, code2 \in genCode, rs \in Reads(4) :
       RunResend(req, code1, code2, rs)
  \/ \E token \in TokenInputs, rs \in Reads(3) : ActivateByToken(token, rs)
  \/ \E email \in ConcEmails, rs \in Reads(1) : Status(email, rs)

SpecConc == Init /\ [][NextConc]_vars

----------------------------------------------------------------------------
(* Clients that keep calling.  The server runs a handler for every        *)
(* request it receives; LiveSpec adds that some request whose input       *)
(* passes validation does arrive whenever handling one would change the   *)
(* state.  One identity is enough to follow a record from its issue to    *)
(* its removal.                                                           *)

LiveEmails == {<<"a", "@", "b", ".", "c">>, <<"a", "@", "b">>}

Keys == {toLowerCase(e) : e \in ValidEmails}

ValidRequest ==
  \/ \E email \in LiveEmails \cap ValidEmails, code \in genCode, rs \in Reads(3) :
       Register("none", email, code, rs)
  \/ \E token \in TokenInputs \ {Null}, rs \in Reads(3) : ActivateByToken(token, rs)
  \/ \E email \in LiveEmails \cap ValidEmails, rs \in Reads(3) :
       \E code \in {c \in CodeInputs : isCodeFormat(c)} :
         ActivateByCode("none", email, code, rs)
  \/ \E email \in LiveEmails \cap ValidEmails, rs \in Reads(1) : Status(email, rs)
  \/ \E email \in LiveEmails \cap ValidEmails, code1, code2 \in genCode :
       \E rs \in Reads(4) : Resend("none", email, code1, code2, rs)

NextLive ==
  \/ \E t \in Times : AdvanceClock(t)
  \/ \E email \in LiveEmails, code \in genCode, rs \in Reads(3) :
       Register("none", email, code, rs)
  \/ \E token \in TokenInputs, rs \in Reads(3) : ActivateByToken(token, rs)
  \/ \E email \in LiveEmails, code \in CodeInputs, rs \in Reads(3) :
       ActivateByCode("none", email, code, rs)
  \/ \E email \in LiveEmails, rs \in Reads(1) : Status(email, rs)
  \/ \E email \in LiveEmails, code1, code2 \in genCode, rs \in Reads(4) :
       Resend("none", email, code1, code2, rs)

LiveSpec == Init /\ [][NextLive]_vars /\ WF_vars(ValidRequest)

----------------------------------------------------------------------------
(* Properties.  A property of a handler is stated for every input and     *)
(* every sequence of clock reads the handler may get in the current       *)
(* state.                                                                  *)

NowActive(r, k) == k \in DOMAIN r.db /\ r.db[k].status = "active"

Pending(k) == k \in DOMAIN db /\ db[k].status = "pending"

Active(k) == k \in DOMAIN db /\ db[k].status = "active"

ByToken(token, rs) == handleActivateByToken(db, issued, token, rs)

ByCode(email, code, rs) ==
  handleActivateByCode(db, issued, "none", email, code, rs)

(* C1: a redemption, by token or by code, never activates a Pending       *)
(* record whose expiresAt is strictly before the clock value the          *)
(* redemption reads, in its sweep or in its expiry test.                  *)
C1_NoExpiredActivation ==
  \A k \in DOMAIN db : \A rs \in Reads(3) :
    Pending(k) =>
      /\ \A token \in TokenInputs :
           NowActive(ByToken(token, rs), k) =>
             ~(db[k].expiresAt[1] < rs[1]) /\ ~(db[k].expiresAt[1] < rs[2])
      /\ \A email \in EmailInputs, code \in CodeInputs :
           NowActive(ByCode(email, code, rs), k) =>
             ~(db[k].expiresAt[1] < rs[1]) /\ ~(db[k].expiresAt[1] < rs[2])

(* C1 witness: a Pending record passes the sweep, is past its deadline at *)
(* the expiry test of a redemption by its own token, and stays Pending.   *)
C1_Witness ==
  \E k \in DOMAIN db : \E rs \in Reads(3) :
    /\ Pending(k)
    /\ ~(db[k].expiresAt[1] < rs[1])
    /\ db[k].expiresAt[1] < rs[2]
    /\ ByToken(db[k].token, rs).http = 410
    /\ ByToken(db[k].token, rs).db[k] = db[k]

(* C2 as stated: redeeming, by its token, a Pending record whose          *)
(* expiresAt the clock has passed returns Expired (410).                  *)
C2_ExpiredTokenReturnsExpired ==
  \A k \in DOMAIN db : \A rs \in Reads(3) :
    (Pending(k) /\ db[k].expiresAt[1] < clock) =>
      ByToken(db[k].token, rs).http = 410

(* C2 amended: redeeming, by its token, a Pending record whose expiresAt  *)
(* the clock has passed returns NotFound (404): the sweep at the start of *)
(* the redemption has removed the record, and nothing is activated.       *)
C2_ExpiredTokenReturnsNotFound ==
  \A k \in DOMAIN db : \A rs \in Reads(3) :
    (Pending(k) /\ db[k].expiresAt[1] < clock) =>
      /\ ByToken(db[k].token, rs).http = 404
      /\ k \notin DOMAIN ByToken(db[k].token, rs).db

(* C2 witness: one identity registered, nothing resent, the clock past    *)
(* its expiresAt, and the redemption by its token answering 404.          *)
C2_Witness ==
  \E k \in DOMAIN db : \E rs \in Reads(3) :
    /\ Pending(k)
    /\ issued = 1
    /\ db[k].expiresAt[1] < clock
    /\ ByToken(db[k].token, rs).http = 404

(* C3: redeeming again the token that was issued for a record that is now *)
(* Active succeeds with status Active and leaves activatedAt unchanged.   *)
C3_TokenReplayIdempotent ==
  \A k \in DOMAIN db : \A rs \in Reads(3) :
    Active(k) =>
      LET r == ByToken(Some(lastToken[k]), rs)
      IN /\ r.http = 200
         /\ r.body.status = "active"
         /\ r.db[k].activatedAt = db[k].activatedAt

(* C4: a record that is Active stays Active over every step.              *)
C4_ActiveIsPermanent ==
  [][\A k \in DOMAIN db :
       db[k].status = "active" => (k \in DOMAIN db' /\ db'[k].status = "active")]_vars

(* C5: register with a valid identity leaves, under the lower-cased       *)
(* identity, a Pending record with a token not generated before, a        *)
(* six-digit code, activatedAt null and createdAt the clock value read by *)
(* this call, whatever record was there before; the key of every record   *)
(* is its lower-cased identity.                                           *)
C5_RegisterIssuesFreshPending ==
  \A email \in ValidEmails, code \in genCode : \A rs \in Reads(3) :
    LET r == handleRegister(db, issued, "none", email, code, rs)
        rec == r.db[toLowerCase(email)]
    IN /\ r.http = 200
       /\ toLowerCase(email) \in DOMAIN r.db
       /\ \A x \in DOMAIN r.db : toLowerCase(r.db[x].email) = x
       /\ rec.email = email
       /\ rec.status = "pending"
       /\ rec.token # Null /\ rec.token[1] > issued
       /\ \A x \in DOMAIN db : db[x].token # rec.token
       /\ rec.code # Null /\ isCodeFormat(rec.code[1])
       /\ rec.activatedAt = Null
       /\ rec.createdAt = rs[2] /\ rec.createdAt >= clock

(* C5 witness: register called for an identity whose record is Active.    *)
C5_Witness ==
  \E email \in ValidEmails, code \in genCode : \E rs \in Reads(3) :
    /\ Active(toLowerCase(email))
    /\ handleRegister(db, issued, "none", email, code, rs)
         .db[toLowerCase(email)].status = "pending"

(* C6: a token that a resend on a Pending record has replaced never       *)
(* redeems: the redemption does not succeed and activates no record.      *)
C6_StaleTokenNeverRedeems ==
  \A tok \in staleTokens : \A rs \in Reads(3) :
    LET r == ByToken(Some(tok), rs)
    IN /\ r.http # 200
       /\ \A k \in DOMAIN r.db : NowActive(r, k) => Active(k)

(* C6 witness: a replaced token is presented while the record it was      *)
(* issued for is still Pending and not expired.                           *)
C6_Witness ==
  \E tok \in staleTokens : \E k \in DOMAIN db : \E rs \in Reads(3) :
    /\ Pending(k)
    /\ ~(db[k].expiresAt[1] < rs[2])
    /\ db[k].token[1] > tok
    /\ ByToken(Some(tok), rs).http = 404
    /\ ByToken(Some(tok), rs).db[k] = db[k]

(* C7: resend for a Pending record that its sweep does not remove         *)
(* replaces token, code and expiresAt and leaves createdAt, the stored    *)
(* identity, the status and activatedAt; every other record is unchanged  *)
(* or removed by the sweep.                                               *)
C7_ResendFrame ==
  \A email \in ValidEmails, code1, code2 \in genCode : \A rs \in Reads(4) :
    LET k == toLowerCase(email)
        r == handleResend(db, issued, "none", email, code1, code2, rs)
    IN (Pending(k) /\ ~purgeable(db[k], rs[1])) =>
         /\ r.http = 200
         /\ r.db[k].token # Null /\ r.db[k].token[1] > issued
         /\ r.db[k].code = Some(code2)
         /\ r.db[k].expiresAt = Some(rs[2] + TOKEN_TTL_MS)
         /\ r.db[k].createdAt = db[k].createdAt
         /\ r.db[k].email = db[k].email
         /\ r.db[k].status = "pending"
         /\ r.db[k].activatedAt = Null
         /\ DOMAIN r.db \subseteq DOMAIN db
         /\ \A x \in DOMAIN db \ {k} :
              IF x \in DOMAIN r.db THEN r.db[x] = db[x]
              ELSE purgeable(db[x], rs[1])

(* C7 witness: resend for a Pending record, under the other letter case,  *)
(* later than its creation, while a second record is in the registry.     *)
C7_Witness ==
  \E email \in ValidEmails, code \in genCode : \E rs \in Reads(4) :
    LET k == toLowerCase(email)
        r == handleResend(db, issued, "none", email, code, code, rs)
    IN /\ Pending(k)
       /\ ~purgeable(db[k], rs[1])
       /\ db[k].email # email
       /\ db[k].createdAt < rs[2]
       /\ DOMAIN db # {k}
       /\ r.db[k].token # db[k].token
       /\ r.db[k].expiresAt # db[k].expiresAt

(* C8: resend for an Active record answers with status Active and leaves  *)
(* the record as it was, with token, code and expiresAt null.             *)
C8_ResendActiveNoOp ==
  \A email \in ValidEmails, code1, code2 \in genCode : \A rs \in Reads(4) :
    LET k == toLowerCase(email)
        r == handleResend(db, issued, "none", email, code1, code2, rs)
    IN Active(k) =>
         /\ r.http = 200
         /\ r.body.status = "active"
         /\ r.db[k] = db[k]
         /\ r.db[k].status = "active"
         /\ r.db[k].activatedAt # Null
         /\ r.db[k].token = Null
         /\ r.db[k].code = Null
         /\ r.db[k].expiresAt = Null
         /\ r.issued = issued

(* C8 witness: resend for an Active record, later than its activation.    *)
C8_Witness ==
  \E email \in ValidEmails, code \in genCode : \E rs \in Reads(4) :
    LET k == toLowerCase(email)
    IN /\ Active(k)
       /\ db[k].activatedAt[1] < rs[1]
       /\ handleResend(db, issued, "none", email, code, code, rs)
            .body.message = "Already active"

(* C9: redeemByCode for an Active record succeeds with status Active for  *)
(* every well-formed code and leaves the record unchanged.                *)
C9_CodeOnActiveIdempotent ==
  \A email \in ValidEmails, code \in CodeInputs : \A rs \in Reads(3) :
    LET k == toLowerCase(email)
        r == ByCode(email, code, rs)
    IN (Active(k) /\ isCodeFormat(code)) =>
         /\ r.http = 200
         /\ r.body.ok
         /\ r.body.status = "active"
         /\ r.db[k] = db[k]

(* C9 witness: a well-formed code that was never generated is presented   *)
(* for an Active record, later than its activation.                       *)
C9_Witness ==
  \E email \in ValidEmails, code \in CodeInputs \ genCode : \E rs \in Reads(3) :
    LET k == toLowerCase(email)
    IN /\ Active(k)
       /\ isCodeFormat(code)
       /\ db[k].activatedAt[1] < rs[1]
       /\ ByCode(email, code, rs).http = 200

(* C10 as stated: status for a Pending record whose expiresAt the clock   *)
(* has passed reports Pending with the stored expiresAt.                  *)
C10_StatusReportsStalePending ==
  \A email \in ValidEmails : \A rs \in Reads(1) :
    LET k == toLowerCase(email)
        r == handleStatus(db, issued, email, rs)
    IN (Pending(k) /\ db[k].expiresAt[1] < clock) =>
         /\ r.body.status = "pending"
         /\ r.body.expiresAt = db[k].expiresAt

(* C10 amended: status for a Pending record whose expiresAt the clock has *)
(* passed reports None, without an error: the sweep at the start of the   *)
(* call has removed the record.                                           *)
C10_StatusSweepsThenReportsNone ==
  \A email \in ValidEmails : \A rs \in Reads(1) :
    LET k == toLowerCase(email)
        r == handleStatus(db, issued, email, rs)
    IN (Pending(k) /\ db[k].expiresAt[1] < clock) =>
         /\ r.http = 200
         /\ r.body.ok
         /\ r.body.status = "none"
         /\ k \notin DOMAIN r.db

(* C10 witness: status is called for a Pending record past its deadline   *)
(* and answers None.                                                      *)
C10_Witness ==
  \E email \in ValidEmails : \E rs \in Reads(1) :
    LET k == toLowerCase(email)
    IN /\ Pending(k)
       /\ db[k].expiresAt[1] < clock
       /\ handleStatus(db, issued, email, rs).body.status = "none"

----------------------------------------------------------------------------
(* Error outcomes.  The error of a response, by the message the handler   *)
(* sends: InvalidIdentity, InvalidCode, NotFound, Expired, CodeMismatch.  *)

ErrorOutcomes ==
  { "Invalid email", "Invalid code format", "Invalid or expired token",
    "Not found", "Token expired", "Code expired", "Code mismatch" }

ValidationErrors == {"Invalid email", "Invalid code format"}

IsError(r) == ~r.body.ok /\ r.body.error \in ErrorOutcomes

SweptOnly(r, t) ==
  /\ DOMAIN r.db \subseteq DOMAIN db
  /\ \A x \in DOMAIN db :
       IF x \in DOMAIN r.db THEN r.db[x] = db[x]
       ELSE db[x].status = "pending" /\ db[x].expiresAt[1] < t

(* C11 as stated: an operation that ends in an error outcome leaves the   *)
(* whole registry as it was: no record added, removed or modified.        *)
C11_ErrorLeavesRegistry ==
  \A rs \in Reads(4) :
    /\ \A email \in EmailInputs, code \in genCode :
         LET r == handleRegister(db, issued, "none", email, code, rs)
         IN IsError(r) => r.db = db
    /\ \A token \in TokenInputs :
         IsError(ByToken(token, rs)) => ByToken(token, rs).db = db
    /\ \A email \in EmailInputs, code \in CodeInputs :
         IsError(ByCode(email, code, rs)) => ByCode(email, code, rs).db = db
    /\ \A email \in EmailInputs :
         LET r == handleStatus(db, issued, email, rs)
         IN IsError(r) => r.db = db
    /\ \A email \in EmailInputs, code1, code2 \in genCode :
         LET r == handleResend(db, issued, "none", email, code1, code2, rs)
         IN IsError(r) => r.db = db

(* C11 amended: an operation that ends in an error outcome adds no record *)
(* and modifies none; InvalidIdentity and InvalidCode leave the registry  *)
(* as it was, and NotFound, Expired and CodeMismatch remove exactly the   *)
(* Pending records whose expiresAt is strictly before the clock value     *)
(* the operation's sweep reads.                                           *)
C11_ErrorOnlySweeps ==
  \A rs \in Reads(4) :
    /\ \A email \in EmailInputs, code \in genCode :
         LET r == handleRegister(db, issued, "none", email, code, rs)
         IN IsError(r) => r.db = db /\ r.body.error \in ValidationErrors
    /\ \A token \in TokenInputs :
         LET r == ByToken(token, rs)
         IN IsError(r) =>
              /\ SweptOnly(r, rs[1])
              /\ \A x \in DOMAIN r.db :
                   ~(r.db[x].status = "pending" /\ r.db[x].expiresAt[1] < rs[1])
    /\ \A email \in EmailInputs, code \in CodeInputs :
         LET r == ByCode(email, code, rs)
         IN IsError(r) =>
              IF r.body.error \in ValidationErrors THEN r.db = db
              ELSE /\ SweptOnly(r, rs[1])
                   /\ \A x \in DOMAIN r.db :
                        ~(r.db[x].status = "pending" /\ r.db[x].expiresAt[1] < rs[1])
    /\ \A email \in EmailInputs :
         LET r == handleStatus(db, issued, email, rs)
         IN IsError(r) => r.db = db /\ r.body.error \in ValidationErrors
    /\ \A email \in EmailInputs, code1, code2 \in genCode :
         LET r == handleResend(db, issued, "none", email, code1, code2, rs)
         IN IsError(r) => r.db = db /\ r.body.error \in ValidationErrors

(* C11 witness: a redemption by code with a wrong code ends in            *)
(* CodeMismatch for a Pending record that stays as it was, while its      *)
(* sweep removes another record that is past its deadline.                *)
C11_Witness ==
  \E email \in ValidEmails, code \in CodeInputs : \E rs \in Reads(3) :
    LET k == toLowerCase(email)
        r == ByCode(email, code, rs)
    IN /\ Pending(k)
       /\ IsError(r)
       /\ r.body.error = "Code mismatch"
       /\ r.db[k] = db[k]
       /\ \E x \in DOMAIN db : x \notin DOMAIN r.db

(* C12: redeemByCode with a well-formed code other than the stored code  *)
(* of a Pending record that is not expired answers CodeMismatch and       *)
(* leaves the record as it was; in the registry it leaves, redeemByCode   *)
(* with the stored code activates the record at every later time at which *)
(* it is not expired.  Every reachable state is such a registry, after    *)
(* any number of mismatches.                                              *)
C12_MismatchNoLockout ==
  \A email \in ValidEmails, code \in CodeInputs : \A rs \in Reads(3) :
    LET k == toLowerCase(email)
        r == ByCode(email, code, rs)
    IN (/\ Pending(k)
        /\ ~(db[k].expiresAt[1] < rs[2])
        /\ isCodeFormat(code)
        /\ db[k].code # Some(code)) =>
         /\ r.http = 401
         /\ r.body.error = "Code mismatch"
         /\ r.db[k] = db[k]
         /\ r.issued = issued
         /\ \A rs2 \in Chains(rs[2], 3) :
              ~(db[k].expiresAt[1] < rs2[2]) =>
                LET a == handleActivateByCode(r.db, r.issued, "none", email,
                                              db[k].code[1], rs2)
                IN /\ a.http = 200
                   /\ a.db[k].status = "active"
                   /\ a.db[k].activatedAt = Some(rs2[3])

(* C12 witness: a code that genCode can produce, other than the stored    *)
(* one, is refused for a Pending record whose deadline is later than      *)
(* createdAt + TTL, and the stored code then activates the record.        *)
C12_Witness ==
  \E email \in ValidEmails, code \in genCode : \E rs \in Reads(3) :
    LET k == toLowerCase(email)
        r == ByCode(email, code, rs)
    IN /\ Pending(k)
       /\ db[k].createdAt + TOKEN_TTL_MS < db[k].expiresAt[1]
       /\ IsError(r)
       /\ r.body.error = "Code mismatch"
       /\ handleActivateByCode(r.db, r.issued, "none", email, db[k].code[1], rs)
            .db[k].status = "active"

(* Two results that differ at most in the identity string stored in the  *)
(* record of key k.                                                      *)
SameButIdentity(r1, r2, k) ==
  /\ DOMAIN r1.db = DOMAIN r2.db
  /\ r1.http = r2.http
  /\ r1.issued = r2.issued
  /\ \A x \in DOMAIN r1.db :
       IF x = k THEN [r1.db[x] EXCEPT !.email = r2.db[x].email] = r2.db[x]
       ELSE r1.db[x] = r2.db[x]

(* C13: the key of every record is the lower-cased form of its stored    *)
(* identity, so no two records have the same case-folded identity; and    *)
(* register, resend, status and redeemByCode called with two identities   *)
(* that differ only in letter case leave the same registry and give the   *)
(* same answer, up to the identity string that register or resend stores  *)
(* in a record it creates.                                                *)
C13_OneRecordPerFoldedIdentity ==
  /\ \A k \in DOMAIN db : LowerCased(db[k].email) = k
  /\ \A k1, k2 \in DOMAIN db :
       LowerCased(db[k1].email) = LowerCased(db[k2].email) => k1 = k2
  /\ \A e1, e2 \in ValidEmails : \A rs \in Reads(4) :
       LowerCased(e1) = LowerCased(e2) =>
         LET k == LowerCased(e1)
         IN /\ \A code \in genCode :
                 SameButIdentity(handleRegister(db, issued, "none", e1, code, rs),
                                 handleRegister(db, issued, "none", e2, code, rs), k)
            /\ \A code1, code2 \in genCode :
                 LET r1 == handleResend(db, issued, "none", e1, code1, code2, rs)
                     r2 == handleResend(db, issued, "none", e2, code1, code2, rs)
                 IN /\ SameButIdentity(r1, r2, k)
                    /\ (k \in DOMAIN db /\ ~purgeable(db[k], rs[1])) => r1 = r2
            /\ \A code \in CodeInputs : ByCode(e1, code, rs) = ByCode(e2, code, rs)
            /\ LET r1 == handleStatus(db, issued, e1, rs)
                   r2 == handleStatus(db, issued, e2, rs)
               IN /\ r1.db = r2.db
                  /\ r1.http = r2.http
                  /\ r1.body.status = r2.body.status
                  /\ k \in DOMAIN r1.db => r1 = r2

(* C13 witness: the registry holds the record registered as "a@b.c", and  *)
(* redeemByCode with "A@b.c" and the stored code activates it.            *)
C13_Witness ==
  \E e1, e2 \in ValidEmails : \E rs \in Reads(3) :
    LET k == LowerCased(e1)
    IN /\ e1 # e2
       /\ LowerCased(e2) = k
       /\ Pending(k)
       /\ db[k].email = e1
       /\ ByCode(e2, db[k].code[1], rs).http = 200
       /\ ByCode(e2, db[k].code[1], rs).db[k].status = "active"
       /\ ByCode(e2, db[k].code[1], rs).body.email = e1

(* The state part and the step part of C14.                              *)
C14_StateOk ==
  /\ \A t \in BagToSet(activations) : CopiesIn(t, activations) <= 1
  /\ \A k \in DOMAIN db :
       db[k].status = "active" =>
         /\ db[k].token = Null
         /\ db[k].code = Null
         /\ db[k].expiresAt = Null
         /\ db[k].activatedAt # Null

C14_StepOk ==
  \A k \in DOMAIN db \cap DOMAIN db' :
    /\ (db[k].status = "active" /\ db'[k].status = "active") =>
         db'[k].activatedAt = db[k].activatedAt
    /\ (db[k].status = "pending" /\ db'[k].status = "active") =>
         /\ db'[k].activatedAt # Null
         /\ db'[k].activatedAt[1] >= clock
         /\ db'[k].activatedAt[1] <= clock'
         /\ \A x \in DOMAIN db' : db'[x].token # db[k].token
         /\ \A x \in (DOMAIN db \cap DOMAIN db') \ {k} :
              ~(db[x].status = "pending" /\ db'[x].status = "active")

(* C14: with POST requests overlapping in every order, every token takes *)
(* at most one record from Pending to Active, an Active record holds no   *)
(* token, code or expiresAt, an activation writes activatedAt with a      *)
(* clock value of that step, and no step changes the activatedAt of a     *)
(* record that stays Active.                                              *)
C14_AtomicUnderInterleaving ==
  [](C14_StateOk) /\ [][C14_StepOk]_vars

(* C14 witness: a record has been activated, once, while a resend for the *)
(* same identity is still in flight.                                      *)
C14_Witness ==
  \E req \in BagToSet(inflight) :
    /\ req.op = "resend"
    /\ req.fault = "none"
    /\ Active(toLowerCase(req.email))
    /\ CopiesIn(lastToken[toLowerCase(req.email)], activations) = 1

(* C15: the record that register leaves has expiresAt equal to its        *)
(* createdAt plus the TTL, whatever values the clock reads of the call    *)
(* return.                                                                *)
C15_ExpiresAtIsCreatedAtPlusTTL ==
  \A email \in ValidEmails, code \in genCode : \A rs \in Reads(3) :
    LET rec == handleRegister(db, issued, "none", email, code, rs)
                 .db[toLowerCase(email)]
    IN rec.expiresAt = Some(rec.createdAt + TOKEN_TTL_MS)

(* The registry of result r holds no Pending record whose expiresAt is   *)
(* strictly before t.                                                    *)
NoStalePending(r, t) ==
  \A x \in DOMAIN r.db :
    ~(r.db[x].status = "pending" /\ r.db[x].expiresAt[1] < t)

(* C16 as stated: every operation, whatever its input and outcome,       *)
(* returns with no Pending record in the registry whose expiresAt is      *)
(* strictly before the time at which the operation started.               *)
C16_EveryOperationSweeps ==
  \A rs \in Reads(4) :
    /\ \A email \in EmailInputs, code \in genCode :
         NoStalePending(handleRegister(db, issued, "none", email, code, rs), clock)
    /\ \A token \in TokenInputs : NoStalePending(ByToken(token, rs), clock)
    /\ \A email \in EmailInputs, code \in CodeInputs :
         NoStalePending(ByCode(email, code, rs), clock)
    /\ \A email \in EmailInputs :
         NoStalePending(handleStatus(db, issued, email, rs), clock)
    /\ \A email \in EmailInputs, code1, code2 \in genCode :
         NoStalePending(handleResend(db, issued, "none", email, code1, code2, rs),
                        clock)

(* C16 amended: an operation whose input passes validation (a valid       *)
(* identity, a six-digit code for redeemByCode, a non-empty token for     *)
(* redeemByToken) returns with no Pending record whose expiresAt is       *)
(* strictly before the clock value its sweep read, which is not before    *)
(* the time the operation started; an operation whose input fails         *)
(* validation does not sweep and leaves the registry as it was.           *)
C16_ValidOperationSweeps ==
  \A rs \in Reads(4) :
    /\ rs[1] >= clock
    /\ \A email \in EmailInputs, code \in genCode :
         LET r == handleRegister(db, issued, "none", email, code, rs)
         IN IF isEmail(email) THEN NoStalePending(r, rs[1]) ELSE r.db = db
    /\ \A token \in TokenInputs :
         LET r == ByToken(token, rs)
         IN IF token # Null THEN NoStalePending(r, rs[1]) ELSE r.db = db
    /\ \A email \in EmailInputs, code \in CodeInputs :
         LET r == ByCode(email, code, rs)
         IN IF isEmail(email) /\ isCodeFormat(code)
            THEN NoStalePending(r, rs[1]) ELSE r.db = db
    /\ \A email \in EmailInputs :
         LET r == handleStatus(db, issued, email, rs)
         IN IF isEmail(email) THEN NoStalePending(r, rs[1]) ELSE r.db = db
    /\ \A email \in EmailInputs, code1, code2 \in genCode :
         LET r == handleResend(db, issued, "none", email, code1, code2, rs)
         IN IF isEmail(email) THEN NoStalePending(r, rs[1]) ELSE r.db = db

(* C16 witness: a Pending record is past its deadline; status with an     *)
(* invalid identity leaves it in the registry, and a redemption with a    *)
(* token that no record holds removes it.                                 *)
C16_Witness ==
  \E k \in DOMAIN db, email \in EmailInputs, token \in TokenInputs :
    \E rs \in Reads(3) :
      /\ Pending(k)
      /\ db[k].expiresAt[1] < clock
      /\ ~isEmail(email)
      /\ k \in DOMAIN handleStatus(db, issued, email, rs).db
      /\ token # Null
      /\ ByToken(token, rs).http = 404
      /\ k \notin DOMAIN ByToken(token, rs).db

(* C17: in every reachable state every record is Pending or Active; it   *)
(* is Pending exactly when token, code and expiresAt are all non-null and *)
(* activatedAt is null, and Active exactly when token, code and expiresAt *)
(* are all null and activatedAt is non-null; token, code and expiresAt    *)
(* are present together or absent together.                               *)
C17_RecordShape ==
  \A k \in DOMAIN db :
    LET rec == db[k]
        allSet == rec.token # Null /\ rec.code # Null /\ rec.expiresAt # Null
        allNull == rec.token = Null /\ rec.code = Null /\ rec.expiresAt = Null
    IN /\ rec.status \in {"pending", "active"}
       /\ rec.status = "pending" <=> (allSet /\ rec.activatedAt = Null)
       /\ rec.status = "active" <=> (allNull /\ rec.activatedAt # Null)
       /\ rec.token = Null <=> rec.code = Null
       /\ rec.token = Null <=> rec.expiresAt = Null
       /\ rec.code # Null => isCodeFormat(rec.code[1])

(* C17 witness: the registry holds an Active record and a Pending record  *)
(* whose token and code a resend has re-issued.                           *)
C17_Witness ==
  \E k1, k2 \in DOMAIN db :
    /\ Active(k1)
    /\ Pending(k2)
    /\ staleTokens # {}
    /\ db[k2].createdAt + TOKEN_TTL_MS < db[k2].expiresAt[1]

(* C18: once the record of an identity is Active, the identity has a     *)
(* record in the registry in every later state.                           *)
C18_ActiveIdentityKeepsRecord ==
  \A k \in Keys : [](Active(k) => [](k \in DOMAIN db))

(* C19: a Pending record whose expiresAt equals the clock value that the *)
(* sweep and the expiry test read is kept by the sweep and is activated   *)
(* by redeemByToken with its token and by redeemByCode with its code; if  *)
(* the sweep or the expiry test reads a clock value strictly greater than *)
(* expiresAt, no token and no code activates it.                          *)
C19_ExpiryIsStrict ==
  \A k \in DOMAIN db : \A rs \in Reads(3) :
    Pending(k) =>
      /\ (rs[1] = db[k].expiresAt[1] /\ rs[2] = db[k].expiresAt[1]) =>
           /\ k \in DOMAIN purgeExpired(db, rs[1])
           /\ purgeExpired(db, rs[1])[k] = db[k]
           /\ ByToken(db[k].token, rs).http = 200
           /\ NowActive(ByToken(db[k].token, rs), k)
           /\ ByCode(db[k].email, db[k].code[1], rs).http = 200
           /\ NowActive(ByCode(db[k].email, db[k].code[1], rs), k)
      /\ (rs[1] > db[k].expiresAt[1] \/ rs[2] > db[k].expiresAt[1]) =>
           /\ \A token \in TokenInputs : ~NowActive(ByToken(token, rs), k)
           /\ \A email \in EmailInputs, code \in CodeInputs :
                ~NowActive(ByCode(email, code, rs), k)
      /\ rs[1] > db[k].expiresAt[1] => k \notin DOMAIN purgeExpired(db, rs[1])

(* C19 witness: the clock stands exactly at the expiresAt of a Pending    *)
(* record, and both redemptions activate it.                              *)
C19_Witness ==
  \E k \in DOMAIN db : \E rs \in Reads(3) :
    /\ Pending(k)
    /\ clock = db[k].expiresAt[1]
    /\ rs[2] = clock
    /\ NowActive(ByToken(db[k].token, rs), k)
    /\ NowActive(ByCode(db[k].email, db[k].code[1], rs), k)

(* The three parts of C20: removal, status while absent, re-creation.    *)
C20_Removed ==
  \A k \in Keys, t \in Tokens :
    (Pending(k) /\ db[k].token = Some(t) /\ db[k].expiresAt[1] < clock)
      ~> (k \notin DOMAIN db \/ db[k].token # Some(t))

C20_NoneWhileAbsent ==
  \A email \in ValidEmails : \A rs \in Reads(1) :
    toLowerCase(email) \notin DOMAIN db =>
      /\ handleStatus(db, issued, email, rs).http = 200
      /\ handleStatus(db, issued, email, rs).body.status = "none"
      /\ toLowerCase(email) \notin DOMAIN handleStatus(db, issued, email, rs).db

C20_OnlyIssueCreates ==
  \A k \in Keys :
    (k \notin DOMAIN db /\ k \in DOMAIN db') =>
      /\ db'[k].status = "pending"
      /\ db'[k].token # Null
      /\ db'[k].token[1] > issued

(* C20: a Pending record whose expiresAt the clock has passed does not   *)
(* stay: when requests with well-formed input keep being handled, the     *)
(* record is eventually removed (or, before that, replaced by a register  *)
(* or a resend).  While an identity has no record, status reports None    *)
(* for it, and only a register or a resend, which issue a new token,      *)
(* gives it a record again.                                               *)
C20_ExpiredPendingIsRemoved ==
  C20_Removed /\ [](C20_NoneWhileAbsent) /\ [][C20_OnlyIssueCreates]_vars

(* C20 witness: one token was issued, no record was activated, the clock  *)
(* is past the first deadline and the registry is empty: the sweep has    *)
(* removed the record, and status reports None for its identity.          *)
C20_Witness ==
  /\ issued = 1
  /\ activations = EmptyBag
  /\ DOMAIN db = {}
  /\ clock > TOKEN_TTL_MS
  /\ \E email \in LiveEmails \cap ValidEmails : \E rs \in Reads(1) :
       handleStatus(db, issued, email, rs).body.status = "none"

====
